---- MODULE Spec2Model ----
(***************************************************************************)
(* Model of the inflation dash app's data pipeline                         *)
(* (src/inflation_app/data_processor.py, class DataProcessor):             *)
(* get_data, process_data, get_and_process_data, run, merge_data and       *)
(* generate_figure, with the Config models that feed it.                   *)
(*                                                                         *)
(* Text is modelled as sequences of one-character strings, so that         *)
(* str.replace, the regular expression search and the period parse are     *)
(* computed on characters.  A CSV body is a sequence of lines, a line a    *)
(* sequence of cells, a cell a sequence of characters (<<>> is an empty    *)
(* field, which pandas reads as NaN).                                      *)
(***************************************************************************)
EXTENDS Integers, Sequences, FiniteSets, TLC

VARIABLES
    configs,     \* self.configs: the list of source descriptors
    net,         \* per source: what the network will answer (environment)
    pc,          \* per source: position of its get_and_process_data task
    dataframes,  \* self.dataframes: insertion-ordered dict name -> series
    log,         \* events handed to self.logger, in order
    runState,    \* position of run(): "idle", "running", "returned", "raised"
    figure,      \* outcome of generate_figure
    rows,        \* SpecRows: the rows of the table handed to process_data
    config,      \* SpecRows: the descriptor handed to process_data
    item,        \* SpecRows: the raw configuration item config was built from
    processed,   \* SpecRows: what process_data returned
    payload,     \* SpecCsv: the lines of the response body, as lists of fields
    frame        \* SpecCsv: what get_data returned

vars == <<configs, net, pc, dataframes, log, runState, figure,
          rows, config, item, processed, payload, frame>>
pipeVars == <<configs, net, pc, runState, figure>>
rowVars == <<rows, config, item, processed, payload, frame>>

-----------------------------------------------------------------------------
(* Bounds of the model *)

NumSources == 2
MaxRows == 5
MaxLines == 3
MaxCol == 2

(* Program constants *)

OkStatus == 200
PctPeriods == 4
PctScale == 100

-----------------------------------------------------------------------------
(* Characters and tokens *)

Digits == {"0", "1", "2", "3", "4", "5", "6", "7", "8", "9"}

DigitVal(c) ==
    CASE c = "0" -> 0 [] c = "1" -> 1 [] c = "2" -> 2 [] c = "3" -> 3
      [] c = "4" -> 4 [] c = "5" -> 5 [] c = "6" -> 6 [] c = "7" -> 7
      [] c = "8" -> 8 [] c = "9" -> 9

NaN == <<>>

IsInt(cell) == Len(cell) >= 1 /\ \A k \in 1..Len(cell) : cell[k] \in Digits

RECURSIVE ToInt(_)
ToInt(cell) ==
    IF cell = <<>> THEN 0
    ELSE 10 * ToInt(SubSeq(cell, 1, Len(cell) - 1)) + DigitVal(cell[Len(cell)])

\* pandas' column type inference in read_csv: all integers -> int64, integers
\* and empty fields -> float64, anything else -> object (text, NaN for empty).
InferDtype(cells) ==
    IF Len(cells) = 0 THEN "object"
    ELSE IF \A k \in 1..Len(cells) : IsInt(cells[k]) THEN "int64"
    ELSE IF \A k \in 1..Len(cells) : IsInt(cells[k]) \/ cells[k] = NaN THEN "float64"
    ELSE "object"

\* Series.str.replace(" ", "-") on one value
\* a plausible slip: the replacement is left out
str_replace_none(tok) == tok

str_replace(tok) == [k \in 1..Len(tok) |-> IF tok[k] = " " THEN "-" ELSE tok[k]]

\* the regular expression \d{4}-Q\d matched at position k of tok
MatchAt(tok, k) ==
    /\ k + 6 <= Len(tok)
    /\ \A j \in k..(k + 3) : tok[j] \in Digits
    /\ tok[k + 4] = "-"
    /\ tok[k + 5] = "Q"
    /\ tok[k + 6] \in Digits

\* Series.str.contains(r"\d{4}-Q\d") on one value: a search, not a full match
str_contains(tok) == \E k \in 1..Len(tok) : MatchAt(tok, k)

\* pd.PeriodIndex(..., freq="Q") on one value: parses YYYY-Qn with n in 1..4
\* and raises on anything else
ParsesAsPeriod(tok) ==
    /\ Len(tok) = 7
    /\ MatchAt(tok, 1)
    /\ tok[7] \in {"1", "2", "3", "4"}

\* the ordinal of the quarter: year * 4 + (n - 1)
PeriodOf(tok) == ToInt(SubSeq(tok, 1, 4)) * 4 + (DigitVal(tok[7]) - 1)

-----------------------------------------------------------------------------
(* Source descriptors *)

NoFreq == "no attribute freq"
Invalid == "ValidationError"

\* config_base_model.Config: url, skiprows (default 0), name, date_column,
\* cpi_column.  The model declares no freq field, so a freq given in the
\* configuration is ignored and the descriptor has no attribute freq.
Config(it) ==
    IF it.cpi_column = it.date_column THEN Invalid
    ELSE [url |-> it.url, skiprows |-> it.skiprows, name |-> it.name,
          date_column |-> it.date_column, cpi_column |-> it.cpi_column,
          freq |-> NoFreq]

\* config_dataclass.Config (earlier revision): the same, with freq: str = "Q"
ConfigWithFreq(it) ==
    IF it.cpi_column = it.date_column THEN Invalid
    ELSE [url |-> it.url, skiprows |-> it.skiprows, name |-> it.name,
          date_column |-> it.date_column, cpi_column |-> it.cpi_column,
          freq |-> IF it.freq = "absent" THEN "Q" ELSE it.freq]

-----------------------------------------------------------------------------
(* Events *)

Event(level, tag, what) == [level |-> level, tag |-> tag, what |-> what]

\* a plausible slip: the event names the series instead of the location
StatusErrorEventByName(cfg, status) ==
    [level |-> "error", tag |-> cfg.name, what |-> "Error getting data",
     status |-> status]

\* the event of lines 41-44: "Error getting data from {url}: {status}"
StatusErrorEvent(cfg, status) ==
    [level |-> "error", tag |-> cfg.url, what |-> "Error getting data",
     status |-> status]

-----------------------------------------------------------------------------
(* get_data: the table built from the response text *)

DropRows(content, n) ==
    IF n >= Len(content) THEN <<>> ELSE SubSeq(content, n + 1, Len(content))

\* a plausible slip: the date name always first
NamesDateFirst(cfg) == <<"date", "cpi">>

\* names as get_data builds them: the date name first when the date column
\* is the left one
Names(cfg) ==
    IF cfg.date_column < cfg.cpi_column THEN <<"date", "cpi">> ELSE <<"cpi", "date">>

\* read_csv takes usecols as a set: the columns come in file order
UseCols(cfg) ==
    IF cfg.date_column < cfg.cpi_column
    THEN <<cfg.date_column, cfg.cpi_column>>
    ELSE <<cfg.cpi_column, cfg.date_column>>

\* the 0-based file column that gets the name n
ColumnNamed(cfg, n) == UseCols(cfg)[CHOOSE k \in 1..2 : Names(cfg)[k] = n]

Cell(line, col) == IF col + 1 <= Len(line) THEN line[col + 1] ELSE NaN

\* pd.read_csv(io.StringIO(content), skiprows, usecols, names): raises on an
\* empty body, on a column index beyond the first line's fields and on a
\* line with more fields than the first one
ReadCsvRaises(content, cfg) ==
    LET lines == DropRows(content, cfg.skiprows) IN
    \/ Len(lines) = 0
    \/ /\ Len(lines) > 0
       /\ \/ cfg.date_column >= Len(lines[1])
          \/ cfg.cpi_column >= Len(lines[1])
          \/ \E k \in 1..Len(lines) : Len(lines[k]) > Len(lines[1])

MakeFrame(dates, cpis) ==
    [date |-> dates, cpi |-> cpis,
     dateDtype |-> InferDtype(dates), cpiDtype |-> InferDtype(cpis)]

read_csv(content, cfg) ==
    LET lines == DropRows(content, cfg.skiprows)
        dcol  == ColumnNamed(cfg, "date")
        ccol  == ColumnNamed(cfg, "cpi")
    IN  MakeFrame([k \in 1..Len(lines) |-> Cell(lines[k], dcol)],
                  [k \in 1..Len(lines) |-> Cell(lines[k], ccol)])

-----------------------------------------------------------------------------
(* process_data *)

RECURSIVE SelectIdx(_, _)
\* the indices of 1..n that satisfy mask, ascending
SelectIdx(mask, n) ==
    IF n = 0 THEN <<>>
    ELSE IF mask[n] THEN Append(SelectIdx(mask, n - 1), n)
    ELSE SelectIdx(mask, n - 1)

RECURSIVE InsertSorted(_, _)
\* e goes after every entry whose period is <= its own (stable)
InsertSorted(s, e) ==
    IF s = <<>> THEN <<e>>
    ELSE IF s[Len(s)].period <= e.period THEN Append(s, e)
    ELSE Append(InsertSorted(SubSeq(s, 1, Len(s) - 1), e), s[Len(s)])

RECURSIVE sort_index(_)
sort_index(s) ==
    IF s = <<>> THEN <<>>
    ELSE InsertSorted(sort_index(SubSeq(s, 1, Len(s) - 1)), s[Len(s)])

dropna(s) == LET keep == [k \in 1..Len(s) |-> ~s[k].nan]
                 idx  == SelectIdx(keep, Len(s))
             IN  [k \in 1..Len(idx) |-> s[idx[k]]]

\* pct_change with the comparison three rows back
pct_change_short(vals, k) ==
    IF k <= PctPeriods - 1 THEN [nan |-> TRUE, rate |-> 0]
    ELSE [nan |-> FALSE,
          rate |-> ((vals[k] - vals[k - (PctPeriods - 1)]) * PctScale)
                      \div vals[k - (PctPeriods - 1)]]

\* Series.pct_change(periods=4) * 100: entry k against entry k - 4 in ROW
\* order; the first four entries are NaN.  The inputs of the model are
\* positive integers on which the division is exact.
pct_change(vals, k) ==
    IF k <= PctPeriods THEN [nan |-> TRUE, rate |-> 0]
    ELSE [nan |-> FALSE,
          rate |-> ((vals[k] - vals[k - PctPeriods]) * PctScale) \div vals[k - PctPeriods]]

\* lines 93-94: the date tokens with spaces replaced; NaN stays NaN
Replaced(df) ==
    [k \in 1..Len(df.date) |-> IF df.date[k] = NaN THEN NaN ELSE str_replace(df.date[k])]

\* the rows kept by the filter of line 94, in row order
Kept(df) ==
    LET toks == Replaced(df)
    IN  SelectIdx([k \in 1..Len(toks) |-> toks[k] # NaN /\ str_contains(toks[k])],
                  Len(toks))

\* what makes the try block of process_data raise:
\*   .str on a column that is not text (AttributeError),
\*   a NaN in the boolean mask (ValueError),
\*   config.freq missing (AttributeError),
\*   a kept token that is no period (DateParseError),
\*   arithmetic on a value column that is text (TypeError)
ProcessRaises(df, cfg) ==
    LET toks == Replaced(df)
        kept == Kept(df)
    IN  \/ df.dateDtype # "object"
        \/ \E k \in 1..Len(df.date) : df.date[k] = NaN
        \/ cfg.freq = NoFreq
        \/ \E k \in 1..Len(kept) : ~ParsesAsPeriod(toks[kept[k]])
        \/ (Len(kept) > 0 /\ df.cpiDtype = "object")

\* lines 96-106 on a frame that does not raise
Normalize(df) ==
    LET toks == Replaced(df)
        kept == Kept(df)
        vals == [k \in 1..Len(kept) |-> ToInt(df.cpi[kept[k]])]
        raw  == [k \in 1..Len(kept) |->
                    LET change == pct_change(vals, k)
                    IN  [period |-> PeriodOf(toks[kept[k]]),
                         rate   |-> change.rate,
                         nan    |-> change.nan]]
    IN  dropna(sort_index(raw))

process_data(df, cfg) ==
    IF ProcessRaises(df, cfg)
    THEN [kind |-> "None", series |-> <<>>,
          events |-> <<Event("error", cfg.name, "Error processing CSV data")>>]
    ELSE LET s == Normalize(df)
         IN  [kind |-> "df", series |-> s,
              events |-> IF s = <<>>
                         THEN <<Event("error", cfg.name, "returned an empty dataframe")>>
                         ELSE <<>>]

-----------------------------------------------------------------------------
(* get_and_process_data: the dict self.dataframes *)

\* self.dataframes is a dict: insertion-ordered, one entry per key; an
\* assignment to an existing key replaces the value and keeps the position
HasKey(d, name) == \E k \in 1..Len(d) : d[k].name = name

DictSet(d, name, series) ==
    IF HasKey(d, name)
    THEN [k \in 1..Len(d) |-> IF d[k].name = name
                              THEN [name |-> name, series |-> series]
                              ELSE d[k]]
    ELSE Append(d, [name |-> name, series |-> series])

DictGet(d, name) == d[CHOOSE k \in 1..Len(d) : d[k].name = name].series

\* the processed frame stored without the test for an empty one
StoreResultAlways(d, cfg, res) ==
    IF res.kind # "None" THEN DictSet(d, cfg.name, res.series) ELSE d

\* lines 126-129: the processed frame is stored unless it is None or empty
StoreResult(d, cfg, res) ==
    IF res.kind # "None" /\ res.series # <<>>
    THEN DictSet(d, cfg.name, res.series)
    ELSE d

\* the state a task ends in once process_data has returned
AfterProcess(res) ==
    IF res.kind = "None" THEN "ProcessFailed"
    ELSE IF res.series = <<>> THEN "Empty"
    ELSE "Normalized"

-----------------------------------------------------------------------------
(* merge_data *)

PeriodsOf(series) == {series[k].period : k \in 1..Len(series)}

HasDuplicates(series) ==
    \E j, k \in 1..Len(series) : j # k /\ series[j].period = series[k].period

EntryAt(series, p) == series[CHOOSE k \in 1..Len(series) : series[k].period = p]

\* pd.concat(frames, join="inner", axis=1) raises on no frame at all, and
\* when two or more frames are aligned and one of them repeats a period
\* (its index cannot be reindexed)
ConcatRaises(d) ==
    \/ Len(d) = 0
    \/ (Len(d) >= 2 /\ \E k \in 1..Len(d) : HasDuplicates(d[k].series))

\* the rows of the first frame whose period is in every frame, in order
CommonRows(d) ==
    LET first == d[1].series
    IN  SelectIdx([k \in 1..Len(first) |->
                      \A j \in 1..Len(d) : first[k].period \in PeriodsOf(d[j].series)],
                  Len(first))

concat(d) ==
    LET first == d[1].series
        common == CommonRows(d)
    IN  [columns |-> [j \in 1..Len(d) |-> d[j].name],
         rows |-> [k \in 1..Len(common) |->
                    [period |-> first[common[k]].period,
                     cells |-> [j \in 1..Len(d) |->
                                  IF j = 1 THEN [rate |-> first[common[k]].rate,
                                                 nan |-> first[common[k]].nan]
                                  ELSE LET e == EntryAt(d[j].series, first[common[k]].period)
                                       IN  [rate |-> e.rate, nan |-> e.nan]]]]]

\* merged_df.dropna(): a row with an undefined cell is dropped
DropNaRows(t) ==
    LET keep == [k \in 1..Len(t.rows) |->
                    \A j \in 1..Len(t.rows[k].cells) : ~t.rows[k].cells[j].nan]
        idx  == SelectIdx(keep, Len(t.rows))
    IN  [columns |-> t.columns, rows |-> [k \in 1..Len(idx) |-> t.rows[idx[k]]]]

NoTable == [columns |-> <<>>, rows |-> <<>>]

RECURSIVE SortedPeriods(_)
SortedPeriods(S) ==
    IF S = {} THEN <<>>
    ELSE LET least == CHOOSE p \in S : \A q \in S : p <= q
         IN  <<least>> \o SortedPeriods(S \ {least})

\* the merge with every period of every frame kept (an outer join) and no
\* row dropped
merge_data_outer(d) ==
    IF ConcatRaises(d)
    THEN [kind |-> "raise", table |-> NoTable, events |-> <<>>]
    ELSE LET all == SortedPeriods(UNION {PeriodsOf(d[j].series) : j \in 1..Len(d)})
             t == [columns |-> [j \in 1..Len(d) |-> d[j].name],
                   rows |-> [k \in 1..Len(all) |->
                              [period |-> all[k],
                               cells |-> [j \in 1..Len(d) |->
                                  IF all[k] \in PeriodsOf(d[j].series)
                                  THEN LET e == EntryAt(d[j].series, all[k])
                                       IN  [rate |-> e.rate, nan |-> e.nan]
                                  ELSE [rate |-> 0, nan |-> TRUE]]]]]
         IN  IF t.rows = <<>>
             THEN [kind |-> "None", table |-> NoTable,
                   events |-> <<Event("error", "merge", "Could not produce a plot")>>]
             ELSE [kind |-> "df", table |-> t, events |-> <<>>]

merge_data(d) ==
    IF ConcatRaises(d)
    THEN [kind |-> "raise", table |-> NoTable, events |-> <<>>]
    ELSE LET t == DropNaRows(concat(d))
         IN  IF t.rows = <<>>
             THEN [kind |-> "None", table |-> NoTable,
                   events |-> <<Event("error", "merge", "Could not produce a plot")>>]
             ELSE [kind |-> "df", table |-> t, events |-> <<>>]

\* generate_figure after run() has returned (lines 160-179)
FigureOf(d) ==
    IF Len(d) > 0
    THEN LET m == merge_data(d)
         IN  IF m.kind = "raise" THEN [kind |-> "raised", table |-> NoTable]
             ELSE IF m.kind = "None" THEN [kind |-> "None", table |-> NoTable]
             ELSE [kind |-> "fig", table |-> m.table]
    ELSE [kind |-> "None", table |-> NoTable]

FigureEvents(d) == IF Len(d) > 0 THEN merge_data(d).events ELSE <<>>

-----------------------------------------------------------------------------
(* Inputs: tokens, CSV bodies and the sources the pipeline is run on *)

Y21 == <<"2", "0", "2", "1">>
Y22 == <<"2", "0", "2", "2">>
Tok(year, sep, q) == year \o <<sep, "Q", q>>

V10 == <<"1", "0">>
V20 == <<"2", "0">>
V25 == <<"2", "5">>

BareYear == <<"2", "0", "2", "3">>
MonthToken == <<"2", "0", "1", "4", " ", "N", "O", "V">>
FlaggedToken == Tok(Y21, "-", "1") \o <<"p">>

\* five quarters 2021-Q1..2022-Q1, as the first response of test_run_and_merge
BodyFive ==
    << <<Tok(Y21, "-", "1"), V10>>, <<Tok(Y21, "-", "2"), V10>>,
       <<Tok(Y21, "-", "3"), V10>>, <<Tok(Y21, "-", "4"), V10>>,
       <<Tok(Y22, "-", "1"), V20>> >>

\* a title line, then value before date, "YYYY Qn" tokens, 2021 Q1..2022 Q2,
\* and a stray yearly row
BodySwapped ==
    << <<<<"t">>, <<"t">>>>,
       <<V10, Tok(Y21, " ", "1")>>, <<V10, Tok(Y21, " ", "2")>>,
       <<V10, Tok(Y21, " ", "3")>>, <<V10, Tok(Y21, " ", "4")>>,
       <<V20, Tok(Y22, " ", "1")>>, <<V25, Tok(Y22, " ", "2")>>,
       <<V25, BareYear>> >>

\* four quarters only, as the third response of test_run_and_merge
BodyFour ==
    << <<Tok(Y21, "-", "1"), V10>>, <<Tok(Y21, "-", "2"), V10>>,
       <<Tok(Y21, "-", "3"), V10>>, <<Tok(Y21, "-", "4"), V10>> >>

\* "bad_response": one line with one field
BodyBad == << <<<<"b", "a", "d">>>> >>

\* six quarters 2021-Q2..2022-Q3
BodyLate ==
    << <<Tok(Y21, "-", "2"), V10>>, <<Tok(Y21, "-", "3"), V10>>,
       <<Tok(Y21, "-", "4"), V10>>, <<Tok(Y22, "-", "1"), V10>>,
       <<Tok(Y22, "-", "2"), V25>>, <<Tok(Y22, "-", "3"), V20>> >>

\* 2022-Q1 listed twice
BodyRepeat ==
    << <<Tok(Y21, "-", "1"), V10>>, <<Tok(Y21, "-", "2"), V10>>,
       <<Tok(Y21, "-", "3"), V10>>, <<Tok(Y21, "-", "4"), V10>>,
       <<Tok(Y22, "-", "1"), V20>>, <<Tok(Y22, "-", "1"), V25>> >>

Item(url, name, dcol, ccol, skip, freq) ==
    [url |-> url, name |-> name, date_column |-> dcol, cpi_column |-> ccol,
     skiprows |-> skip, freq |-> freq]

NetOk == [conn |-> "ok", status |-> OkStatus, text |-> "ok"]
Net404 == [conn |-> "ok", status |-> 404, text |-> "ok"]
NetConnError == [conn |-> "error", status |-> 0, text |-> "ok"]
NetTextError == [conn |-> "ok", status |-> OkStatus, text |-> "error"]

Source(cfg, answer, body) == [cfg |-> cfg, net |-> answer, body |-> body]

\* the sources a run is made of: descriptor, network answer and payload
Catalog ==
    { Source(ConfigWithFreq(Item("u1", "A", 0, 1, 0, "Q")), NetOk, BodyFive),
      Source(ConfigWithFreq(Item("u2", "B", 1, 0, 1, "absent")), NetOk, BodySwapped),
      Source(ConfigWithFreq(Item("u3", "C", 0, 1, 0, "Q")), NetOk, BodyFour),
      Source(ConfigWithFreq(Item("u4", "D", 0, 1, 0, "Q")), NetOk, BodyBad),
      Source(ConfigWithFreq(Item("u5", "E", 0, 1, 0, "Q")), Net404, BodyFive),
      Source(ConfigWithFreq(Item("u6", "F", 0, 1, 0, "Q")), NetConnError, BodyFive),
      Source(ConfigWithFreq(Item("u7", "G", 0, 1, 0, "Q")), NetTextError, BodyFive),
      Source(ConfigWithFreq(Item("u8", "A", 0, 1, 0, "Q")), NetOk, BodyLate),
      Source(Config(Item("u9", "H", 0, 1, 0, "Q")), NetOk, BodyFive),
      Source(ConfigWithFreq(Item("u10", "R", 0, 1, 0, "Q")), NetOk, BodyRepeat) }

Sources == 1..NumSources

NoFigure == [kind |-> "pending", table |-> NoTable]
NotProcessed == [kind |-> "pending", series |-> <<>>, events |-> <<>>]
NoItem == Item("", "", 0, 1, 0, "absent")
NotRead == [kind |-> "pending", df |-> MakeFrame(<<>>, <<>>)]

-----------------------------------------------------------------------------
(* The pipeline: generate_figure -> run -> one task per descriptor *)

Init ==
    /\ \E c \in [Sources -> Catalog] :
          /\ configs = [i \in Sources |-> c[i].cfg]
          /\ net = [i \in Sources |-> [answer |-> c[i].net, body |-> c[i].body]]
    /\ pc = [i \in Sources |-> "Pending"]
    /\ dataframes = <<>>
    /\ log = <<>>
    /\ runState = "idle"
    /\ figure = NoFigure
    /\ rows = <<>>
    /\ config = ConfigWithFreq(NoItem)
    /\ item = NoItem
    /\ processed = NotProcessed
    /\ payload = <<>>
    /\ frame = NotRead

Finished == {"FetchFailed", "ParseFailed", "ProcessFailed", "Empty", "Normalized", "Raised"}

\* gather schedules the first step of every task before run() is suspended:
\* the event loop runs them in list order, before it handles any response
\* and before it resumes run()
AllStarted == \A i \in Sources : pc[i] # "Pending"

\* generate_figure is called: run() builds the tasks and awaits gather
generate_figure ==
    /\ runState = "idle"
    /\ runState' = "running"
    /\ UNCHANGED <<configs, net, pc, dataframes, log, figure, rowVars>>

\* a task runs up to the request (line 39) and waits for the response
StartFetch(i) ==
    /\ runState # "idle"
    /\ pc[i] = "Pending"
    /\ \A j \in Sources : j < i => pc[j] # "Pending"
    /\ pc' = [pc EXCEPT ![i] = "Fetching"]
    /\ UNCHANGED <<configs, net, dataframes, log, runState, figure, rowVars>>

\* session.get raises (line 39 is outside the try of lines 46-72): the
\* exception leaves get_data and get_and_process_data, the task is done
ConnectionError(i) ==
    /\ pc[i] = "Fetching"
    /\ net[i].answer.conn = "error"
    /\ pc' = [pc EXCEPT ![i] = "Raised"]
    /\ UNCHANGED <<configs, net, dataframes, log, runState, figure, rowVars>>

\* lines 40-45
BadStatus(i) ==
    /\ AllStarted
    /\ pc[i] = "Fetching"
    /\ net[i].answer.conn = "ok"
    /\ net[i].answer.status # OkStatus
    /\ log' = Append(log, StatusErrorEvent(configs[i], net[i].answer.status))
    /\ pc' = [pc EXCEPT ![i] = "FetchFailed"]
    /\ UNCHANGED <<configs, net, dataframes, runState, figure, rowVars>>

\* status 200: the task waits for the body (line 48)
ResponseOk(i) ==
    /\ AllStarted
    /\ pc[i] = "Fetching"
    /\ net[i].answer.conn = "ok"
    /\ net[i].answer.status = OkStatus
    /\ pc' = [pc EXCEPT ![i] = "Reading"]
    /\ UNCHANGED <<configs, net, dataframes, log, runState, figure, rowVars>>

\* response.text() or read_csv raises inside the try: lines 69-72
ReadError(i) ==
    /\ pc[i] = "Reading"
    /\ \/ net[i].answer.text = "error"
       \/ ReadCsvRaises(net[i].body, configs[i])
    /\ log' = Append(log, Event("error", configs[i].url, "Error reading CSV data"))
    /\ pc' = [pc EXCEPT ![i] = "ParseFailed"]
    /\ UNCHANGED <<configs, net, dataframes, runState, figure, rowVars>>

\* get_data returns a frame; lines 126-129 run without suspension
Process(i) ==
    /\ pc[i] = "Reading"
    /\ net[i].answer.text = "ok"
    /\ ~ReadCsvRaises(net[i].body, configs[i])
    /\ LET res == process_data(read_csv(net[i].body, configs[i]), configs[i])
       IN  /\ log' = log \o res.events
           /\ dataframes' = StoreResult(dataframes, configs[i], res)
           /\ pc' = [pc EXCEPT ![i] = AfterProcess(res)]
    /\ UNCHANGED <<configs, net, runState, figure, rowVars>>

\* gather: every task is done and none raised; run() returns and
\* generate_figure goes on to merge_data and the figure
RunReturn ==
    /\ runState = "running"
    /\ \A i \in Sources : pc[i] \in Finished \ {"Raised"}
    /\ runState' = "returned"
    /\ figure' = FigureOf(dataframes)
    /\ log' = log \o FigureEvents(dataframes)
    /\ UNCHANGED <<configs, net, pc, dataframes, rowVars>>

\* gather without return_exceptions: the first exception of a task is
\* raised in run() at once, the other tasks are left running; nothing in
\* run() or generate_figure catches it
RunRaise ==
    /\ runState = "running"
    /\ AllStarted
    /\ \E i \in Sources : pc[i] = "Raised"
    /\ runState' = "raised"
    /\ figure' = [kind |-> "raised", table |-> NoTable]
    /\ UNCHANGED <<configs, net, pc, dataframes, log, rowVars>>

Next ==
    \/ generate_figure
    \/ \E i \in Sources : StartFetch(i)
    \/ \E i \in Sources : ConnectionError(i)
    \/ \E i \in Sources : BadStatus(i)
    \/ \E i \in Sources : ResponseOk(i)
    \/ \E i \in Sources : ReadError(i)
    \/ \E i \in Sources : Process(i)
    \/ RunReturn
    \/ RunRaise

Spec == Init /\ [][Next]_vars

-----------------------------------------------------------------------------
(* One source on any table: get_and_process_data from the frame on *)

\* the rows a frame is built from: (date token, value)
RowUniverse ==
    { <<Tok(Y21, "-", "1"), V10>>, <<Tok(Y21, " ", "2"), V20>>,
      <<Tok(Y21, "-", "3"), V10>>, <<Tok(Y21, "-", "4"), V25>>,
      <<Tok(Y22, "-", "1"), V20>>, <<Tok(Y22, " ", "1"), V25>>,
      <<BareYear, V25>>, <<MonthToken, V10>>, <<FlaggedToken, V10>> }

FrameOf(rs) == MakeFrame([k \in 1..Len(rs) |-> rs[k][1]], [k \in 1..Len(rs) |-> rs[k][2]])

RowItems == { Item("u", "S", 0, 1, 0, f) : f \in {"absent", "Q"} }

InitRows ==
    /\ rows = <<>>
    /\ item = NoItem
    /\ config = ConfigWithFreq(NoItem)
    /\ processed = NotProcessed
    /\ payload = <<>>
    /\ frame = NotRead
    /\ dataframes = <<>>
    /\ log = <<>>
    /\ configs = [i \in Sources |-> ConfigWithFreq(NoItem)]
    /\ net = [i \in Sources |-> [answer |-> NetOk, body |-> <<>>]]
    /\ pc = [i \in Sources |-> "Pending"]
    /\ runState = "idle"
    /\ figure = NoFigure

\* the response carries one more line (the lines of a response are taken
\* distinct; the same quarter comes twice as "2022-Q1" and "2022 Q1")
AddRow(r) ==
    /\ processed.kind = "pending"
    /\ Len(rows) < MaxRows
    /\ \A k \in 1..Len(rows) : rows[k] # r
    /\ rows' = Append(rows, r)
    /\ UNCHANGED <<item, config, processed, payload, frame, dataframes, log, pipeVars>>

\* a descriptor validated by config_base_model.Config (cfg = Config(it)) or
\* by config_dataclass.Config (cfg = ConfigWithFreq(it)); get_data has
\* returned the frame of rows (read_csv returns no frame without a line)
\* and lines 126-129 run
ProcessTable(it, cfg) ==
    /\ processed.kind = "pending"
    /\ Len(rows) >= 1
    /\ item' = it
    /\ config' = cfg
    /\ LET res == process_data(FrameOf(rows), cfg)
       IN  /\ processed' = res
           /\ log' = log \o res.events
           /\ dataframes' = StoreResult(dataframes, cfg, res)
    /\ UNCHANGED <<rows, payload, frame, pipeVars>>

NextRows ==
    \/ \E r \in RowUniverse : AddRow(r)
    \/ \E it \in RowItems : \E cfg \in {Config(it), ConfigWithFreq(it)} : ProcessTable(it, cfg)

SpecRows == InitRows /\ [][NextRows]_vars

-----------------------------------------------------------------------------
(* get_data on one response with status 200: SpecCsv *)

\* the lines a response is made of: three fields, a line with two fields
\* and a title line
LineUniverse ==
    { <<Tok(Y21, "-", "1"), V10, V25>>, <<V20, Tok(Y21, " ", "2"), V10>>,
      <<BareYear, V25>>, <<<<"t">>>> }

\* configuration items over every pair of column positions
CsvItems ==
    { Item("u", "S", d, c, s, "absent") : d \in 0..MaxCol, c \in 0..MaxCol, s \in {0, 1} }

InitCsv ==
    /\ payload = <<>>
    /\ frame = NotRead
    /\ rows = <<>>
    /\ item = NoItem
    /\ config = ConfigWithFreq(NoItem)
    /\ processed = NotProcessed
    /\ dataframes = <<>>
    /\ log = <<>>
    /\ configs = [i \in Sources |-> ConfigWithFreq(NoItem)]
    /\ net = [i \in Sources |-> [answer |-> NetOk, body |-> <<>>]]
    /\ pc = [i \in Sources |-> "Pending"]
    /\ runState = "idle"
    /\ figure = NoFigure

\* the response body carries one more line
AddLine(l) ==
    /\ frame.kind = "pending"
    /\ Len(payload) < MaxLines
    /\ payload' = Append(payload, l)
    /\ UNCHANGED <<frame, rows, item, config, processed, dataframes, log, pipeVars>>

\* get_data(session, config) for a descriptor that Config accepted (its
\* validator rejects cpi_column = date_column), the response has status 200
\* (lines 46-72)
get_data(it) ==
    /\ frame.kind = "pending"
    /\ it.cpi_column # it.date_column
    /\ item' = it
    /\ config' = Config(it)
    /\ IF ReadCsvRaises(payload, Config(it))
       THEN /\ frame' = [kind |-> "None", df |-> MakeFrame(<<>>, <<>>)]
            /\ log' = Append(log, Event("error", it.url, "Error reading CSV data"))
       ELSE /\ frame' = [kind |-> "df", df |-> read_csv(payload, Config(it))]
            /\ log' = log
    /\ UNCHANGED <<payload, rows, processed, dataframes, pipeVars>>

NextCsv ==
    \/ \E l \in LineUniverse : AddLine(l)
    \/ \E it \in CsvItems : get_data(it)

SpecCsv == InitCsv /\ [][NextCsv]_vars

-----------------------------------------------------------------------------
(* Properties *)

RunOver == runState \in {"returned", "raised"}

\* source i, left alone, fetches, parses and normalizes to a non-empty series
WillNormalize(i) ==
    /\ net[i].answer = NetOk
    /\ ~ReadCsvRaises(net[i].body, configs[i])
    /\ LET res == process_data(read_csv(net[i].body, configs[i]), configs[i])
       IN  res.kind = "df" /\ res.series # <<>>

\* C1: when run() is over, every source whose own fetch and normalization
\* succeed has its series in self.dataframes, whatever happened to the
\* other sources.
C1_FailuresAreIsolated ==
    RunOver => \A i \in Sources :
                  WillNormalize(i) => HasKey(dataframes, configs[i].name)

\* C2: get_data never lets an exception escape: no task ends by an
\* exception raised out of get_data.
C2_GetDataNeverRaises == \A i \in Sources : pc[i] # "Raised"

\* C3: run() is over only when every task has finished: none is still
\* pending, fetching or reading.
C3_RunWaitsForAll == RunOver => \A i \in Sources : pc[i] \in Finished

\* C4: generate_figure ends with a chart exactly when self.dataframes is
\* not empty and the merged table has a row, and with None in every other
\* case, never with an exception.
C4_FigureOrNone ==
    figure.kind # "pending" =>
        /\ figure.kind \in {"fig", "None"}
        /\ figure.kind = "fig" <=>
              (Len(dataframes) > 0 /\ merge_data(dataframes).kind = "df")

\* the retained rows name each quarter once
DistinctQuarters(df) ==
    \A a, b \in 1..Len(Kept(df)) :
        a # b => Replaced(df)[Kept(df)[a]] # Replaced(df)[Kept(df)[b]]

\* C5: every entry process_data returns for a quarter t is the change of
\* the value of quarter t against the value of the calendar quarter t-4,
\* times 100, and quarter t-4 is among the retained rows (stated for rows,
\* in any order, that name each quarter once).
C5_YearOnYearByCalendar ==
    (processed.kind = "df" /\ DistinctQuarters(FrameOf(rows))) =>
        LET df == FrameOf(rows)
            toks == Replaced(df)
            kept == Kept(df)
        IN  \A n \in 1..Len(processed.series) :
              \E a, b \in 1..Len(kept) :
                 /\ PeriodOf(toks[kept[a]]) = processed.series[n].period
                 /\ PeriodOf(toks[kept[b]]) = processed.series[n].period - 4
                 /\ processed.series[n].rate =
                       ((ToInt(df.cpi[kept[a]]) - ToInt(df.cpi[kept[b]])) * 100)
                          \div ToInt(df.cpi[kept[b]])

\* the periods every stored series has
CommonPeriods(d) ==
    {p \in PeriodsOf(d[1].series) : \A j \in 1..Len(d) : p \in PeriodsOf(d[j].series)}

\* every stored series is a normalized series: no period twice
AllNormalized(d) == \A j \in 1..Len(d) : ~HasDuplicates(d[j].series)

TablePeriods(t) == {t.rows[k].period : k \in 1..Len(t.rows)}

\* C6: the table merged from the N >= 1 normalized series of
\* self.dataframes has exactly the periods common to all N series, one
\* column per series and a defined value, the series' own, in every cell;
\* when no period is common there is no table (None).
C6_MergeIsIntersection ==
    (runState = "returned" /\ Len(dataframes) >= 1 /\ AllNormalized(dataframes)) =>
        \/ /\ figure.kind = "None"
           /\ CommonPeriods(dataframes) = {}
        \/ /\ figure.kind = "fig"
           /\ TablePeriods(figure.table) = CommonPeriods(dataframes)
           /\ CommonPeriods(dataframes) # {}
           /\ figure.table.columns = [j \in 1..Len(dataframes) |-> dataframes[j].name]
           /\ \A k \in 1..Len(figure.table.rows) :
                 /\ Len(figure.table.rows[k].cells) = Len(dataframes)
                 /\ \A j \in 1..Len(dataframes) :
                       /\ ~figure.table.rows[k].cells[j].nan
                       /\ figure.table.rows[k].cells[j].rate =
                             EntryAt(dataframes[j].series,
                                     figure.table.rows[k].period).rate

\* two series with different periods were merged into a table
C6_Witness ==
    /\ runState = "returned"
    /\ Len(dataframes) = 2
    /\ AllNormalized(dataframes)
    /\ figure.kind = "fig"
    /\ \E j \in 1..2 : PeriodsOf(dataframes[j].series) # TablePeriods(figure.table)

NormalizedSources == {i \in Sources : pc[i] = "Normalized"}

\* C7 as stated: after run() the number of entries of self.dataframes is
\* the number of sources that reached Normalized.
C7_OneEntryPerNormalizedSource ==
    RunOver => Len(dataframes) = Cardinality(NormalizedSources)

\* C7 amended: after run() self.dataframes holds one entry per distinct
\* series name among the sources that reached Normalized, and no entry
\* under any other name; the count equals the number of Normalized sources
\* when their names are distinct.
C7_OneEntryPerNormalizedName ==
    RunOver =>
        /\ {dataframes[k].name : k \in 1..Len(dataframes)}
              = {configs[i].name : i \in NormalizedSources}
        /\ Len(dataframes) = Cardinality({configs[i].name : i \in NormalizedSources})
        /\ (\A i, j \in NormalizedSources : i # j => configs[i].name # configs[j].name)
              => Len(dataframes) = Cardinality(NormalizedSources)

\* run() has returned with one source Normalized, one Empty or failed
C7_Witness ==
    /\ runState = "returned"
    /\ \E i, j \in Sources :
          /\ pc[i] = "Normalized"
          /\ pc[j] \in {"Empty", "FetchFailed", "ParseFailed"}
    /\ Len(dataframes) = 1

\* C8: a descriptor whose configuration gives no frequency is processed as
\* a quarterly one: process_data returns what it returns for the descriptor
\* with freq "Q".
C8_DefaultFrequencyIsQuarterly ==
    (processed.kind # "pending" /\ item.freq = "absent") =>
        processed = process_data(FrameOf(rows), [config EXCEPT !.freq = "Q"])

\* exactly four digits, a hyphen, Q and one digit
IsQuarterToken(tok) == Len(tok) = 7 /\ MatchAt(tok, 1)

RemoveAt(s, k) == SubSeq(s, 1, k - 1) \o SubSeq(s, k + 1, Len(s))

\* C9: a row whose date token is no quarter token is discarded without an
\* error event and without failing the source: when the table without that
\* row is processed to a series, the table with it is processed to the same
\* series with the same events.
C9_NonQuarterRowsDiscarded ==
    (processed.kind # "pending" /\ Len(rows) >= 2) =>
        \A k \in 1..Len(rows) :
            (/\ ~IsQuarterToken(str_replace(rows[k][1]))
             /\ process_data(FrameOf(RemoveAt(rows, k)), config).kind = "df")
                => processed = process_data(FrameOf(RemoveAt(rows, k)), config)

FewQuarters == processed.kind # "pending" /\ Len(Kept(FrameOf(rows))) < 5

C11_SeriesStrictlyIncreasing ==
    \A n \in 1..Len(dataframes) :
        /\ \A k \in 1..Len(dataframes[n].series) : ~dataframes[n].series[k].nan
        /\ \A k \in 1..(Len(dataframes[n].series) - 1) :
              dataframes[n].series[k].period < dataframes[n].series[k + 1].period

\* C12: the columns of the merged table follow the descriptor list: of two
\* columns the left one belongs to a descriptor that comes earlier in
\* self.configs than one the right column belongs to.
C12_ColumnsInDescriptorOrder ==
    figure.kind = "fig" =>
        \A a, b \in 1..Len(figure.table.columns) :
            a < b => \E i, j \in Sources :
                        /\ i < j
                        /\ configs[i].name = figure.table.columns[a]
                        /\ configs[j].name = figure.table.columns[b]

\* the error events that name the location url and say what
ErrorEvents(url, what) ==
    {k \in DOMAIN log : /\ log[k].level = "error"
                        /\ log[k].tag = url
                        /\ log[k].what = what}

\* the tasks of location url that are at position p
TasksAt(url, p) == {j \in Sources : configs[j].url = url /\ pc[j] = p}

\* the task of source i is past get_data (the request itself did not raise)
PastGetData(i) == pc[i] \in Finished \ {"Raised"}

Unreadable(i) ==
    \/ net[i].answer.text = "error"
    \/ ReadCsvRaises(net[i].body, configs[i])

\* C13: a response whose status is not 200, and a response with status 200
\* whose payload cannot be read as a table, make get_data return None (the
\* task ends at FetchFailed or ParseFailed, nothing is processed) with
\* exactly one error event that names the url of the source, and that event
\* carries the status code in the first case.
C13_OneErrorEventPerFailedGetData ==
    \A i \in Sources :
        /\ (PastGetData(i) /\ net[i].answer.status # OkStatus)
              => pc[i] = "FetchFailed"
        /\ (PastGetData(i) /\ net[i].answer.status = OkStatus /\ Unreadable(i))
              => pc[i] = "ParseFailed"
        /\ Cardinality(ErrorEvents(configs[i].url, "Error getting data"))
              = Cardinality(TasksAt(configs[i].url, "FetchFailed"))
        /\ Cardinality(ErrorEvents(configs[i].url, "Error reading CSV data"))
              = Cardinality(TasksAt(configs[i].url, "ParseFailed"))
        /\ \A k \in ErrorEvents(configs[i].url, "Error getting data") :
              log[k].status = net[i].answer.status
        /\ \A k \in DOMAIN log :
              log[k].tag = configs[i].url
                 => k \in ErrorEvents(configs[i].url, "Error getting data")
                       \cup ErrorEvents(configs[i].url, "Error reading CSV data")

\* one source answered 404 and one sent a payload that is no table
C13_Witness ==
    /\ \E i \in Sources : pc[i] = "FetchFailed" /\ net[i].answer.status = 404
    /\ \E i \in Sources : pc[i] = "ParseFailed"
    /\ Len(log) = 2

\* C14: the frame get_data returns has in its date field the cells of the
\* file column date_column and in its value field the cells of the file
\* column cpi_column, whichever of the two columns is the left one.
C14_FieldsBoundByPosition ==
    frame.kind = "df" =>
        LET lines == DropRows(payload, config.skiprows)
        IN  /\ frame.df.date =
                  [k \in 1..Len(lines) |-> Cell(lines[k], config.date_column)]
            /\ frame.df.cpi =
                  [k \in 1..Len(lines) |-> Cell(lines[k], config.cpi_column)]

\* a frame was read with the date column to the right of the value column
C14_Witness ==
    /\ frame.kind = "df"
    /\ config.date_column > config.cpi_column
    /\ Len(frame.df.date) >= 2
    /\ \A k \in 1..Len(frame.df.date) : frame.df.date[k] # frame.df.cpi[k]

\* the token written with the separator to where it has the separator from
Respell(tok, from, to) ==
    [k \in 1..Len(tok) |-> IF tok[k] = from THEN to ELSE tok[k]]

\* the rows with every date token written in the other format
RespellRows(rs, from, to) ==
    [k \in 1..Len(rs) |-> <<Respell(rs[k][1], from, to), rs[k][2]>>]

\* C15: replacing spaces by hyphens twice gives what replacing once gives; a
\* quarter written "YYYY Qn" and written "YYYY-Qn" is the same period; and a
\* table whose date tokens are all rewritten with hyphens, or all with
\* spaces, is processed to the same result as the table itself.
C15_FormatInsensitive ==
    processed.kind # "pending" =>
        /\ \A k \in 1..Len(rows) :
              LET tok == rows[k][1] IN
              /\ str_replace(str_replace(tok)) = str_replace(tok)
              /\ ParsesAsPeriod(str_replace(tok))
                    => /\ ParsesAsPeriod(str_replace(Respell(tok, "-", " ")))
                       /\ ParsesAsPeriod(str_replace(Respell(tok, " ", "-")))
                       /\ PeriodOf(str_replace(Respell(tok, "-", " ")))
                             = PeriodOf(str_replace(Respell(tok, " ", "-")))
        /\ processed = process_data(FrameOf(RespellRows(rows, " ", "-")), config)
        /\ processed = process_data(FrameOf(RespellRows(rows, "-", " ")), config)

\* a table with both spellings among its quarters was processed to a series
C15_Witness ==
    /\ processed.kind = "df"
    /\ processed.series # <<>>
    /\ \E k \in 1..Len(rows) :
          /\ rows[k][1] # Respell(rows[k][1], " ", "-")
          /\ IsQuarterToken(Respell(rows[k][1], " ", "-"))
    /\ \E k \in 1..Len(rows) : IsQuarterToken(rows[k][1])

\* C16: when no row of the table has a quarter token, process_data returns
\* None, not an empty series.
C16_NoQuarterTokenGivesNone ==
    (/\ processed.kind # "pending"
     /\ \A k \in 1..Len(rows) : ~IsQuarterToken(str_replace(rows[k][1])))
        => processed.kind = "None"

====
